---- MODULE Spec2Model ----
(***************************************************************************)
(* Model of frontend/native/src/shared_memory.cc: SharedMemoryReader, the *)
(* consumer side of a file-backed mmap ring buffer.                        *)
(*                                                                         *)
(* The mapped file is a byte array `mem`.  Machine words are scaled: a     *)
(* byte holds a digit in 0..ByteBase-1, uint32_t is four bytes (values in  *)
(* 0..U32Mod-1) and size_t is eight bytes (values in 0..SizeMod-1), so the *)
(* ratio of the two widths is the one of the 64-bit build.                 *)
(*                                                                         *)
(* One JavaScript thread drives a handle, so the methods of one handle do  *)
(* not interleave with each other; they do interleave with the writer      *)
(* process, so every load from the mapping is a step of its own.           *)
(***************************************************************************)
EXTENDS Integers, Sequences, FiniteSets, TLC

ByteBase == 4
MaxScribbles == 1
MaxSlots == 2
PayloadCap == 2
MaxFrames == 3

HEADER_SIZE == 64

U32Mod == ByteBase * ByteBase * ByteBase * ByteBase
U32Max == U32Mod - 1
SizeMod == U32Mod * U32Mod

\* Handle objects; Spec drives the first one, the others stay unconstructed.
Handles == {1, 2}
SpecHandles == {1}

nullptr == 0
MapBase == 1

SlotBytes == 4 + PayloadCap

VARIABLES mem, fileLen, scribbles, prod,
          phase, fd_, buf_, file_size_, sys,
          pc, write_idx, ring_size, slot_size, slot, offset, length, out,
          ret, reads, touched

envVars == <<mem, fileLen, scribbles, prod>>
handleVars == <<phase, fd_, buf_, file_size_, sys>>
localVars == <<write_idx, ring_size, slot_size, slot, offset, length, out>>
vars == <<mem, fileLen, scribbles, prod, phase, fd_, buf_, file_size_, sys,
          pc, write_idx, ring_size, slot_size, slot, offset, length, out,
          ret, reads, touched>>

(***************************************************************************)
(* Bytes and words.                                                        *)
(***************************************************************************)
\* One byte of the mapping.  The code never loads outside the mapping; the
\* value for such an index only makes the operator total.
Peek(m, i) == IF i \in DOMAIN m THEN m[i] ELSE 0

\* A uint32_t load at byte offset off (native byte order, least significant
\* byte first).
U32At(m, off) ==
    Peek(m, off) + ByteBase * Peek(m, off + 1)
      + ByteBase * ByteBase * Peek(m, off + 2)
      + ByteBase * ByteBase * ByteBase * Peek(m, off + 3)

\* Byte k (0..3) of the uint32_t v, as the writer stores it.
U32Byte(v, k) ==
    CASE k = 0 -> v % ByteBase
      [] k = 1 -> (v \div ByteBase) % ByteBase
      [] k = 2 -> (v \div (ByteBase * ByteBase)) % ByteBase
      [] OTHER -> (v \div (ByteBase * ByteBase * ByteBase)) % ByteBase

Span(from, n) == {i \in from .. (from + n - 1) : TRUE}

\* Header field offsets (struct ShmHeader).
OffWriteIndex == 0
OffFrameCount == 4
OffSlotSize == 8
OffRingSize == 12
OffWidth == 16
OffHeight == 20

(***************************************************************************)
(* The file the writer process prepared: a header and MaxSlots slots of    *)
(* SlotBytes bytes.  The header fields are drawn independently of that     *)
(* layout, so a header may lie about ring_size and slot_size.              *)
(***************************************************************************)
FileLens == {HEADER_SIZE - 1, HEADER_SIZE, HEADER_SIZE + 3,
             HEADER_SIZE + MaxSlots * SlotBytes}
WriteIndexes == {0, 1, 2, MaxSlots + 1, U32Max}
RingSizes == {0, 1, MaxSlots, U32Max}
SlotSizes == {0, 2, SlotBytes, U32Max}
FirstLengths == {0, PayloadCap, PayloadCap + SlotBytes - 1, U32Max}
OtherLengths == {PayloadCap, PayloadCap + 1}
ScribbleIdx == {OffWriteIndex, OffSlotSize, OffRingSize, HEADER_SIZE, HEADER_SIZE + 4}
ScribbleVals == {0, ByteBase - 1}

PayloadByte(s, j) == (s + j + 1) % ByteBase

FileImage(fl, wi, rs, ss, l0, l1) ==
    [i \in 0 .. (fl - 1) |->
        IF i < HEADER_SIZE
        THEN CASE i \in Span(OffWriteIndex, 4) -> U32Byte(wi, i - OffWriteIndex)
               [] i \in Span(OffFrameCount, 4) ->
                      U32Byte((wi + 1) % U32Mod, i - OffFrameCount)
               [] i \in Span(OffSlotSize, 4) -> U32Byte(ss, i - OffSlotSize)
               [] i \in Span(OffRingSize, 4) -> U32Byte(rs, i - OffRingSize)
               [] i \in Span(OffWidth, 4) -> U32Byte(ByteBase + 2, i - OffWidth)
               [] i \in Span(OffHeight, 4) -> U32Byte(3, i - OffHeight)
               [] OTHER -> 0
        ELSE LET s == (i - HEADER_SIZE) \div SlotBytes
                 rel == (i - HEADER_SIZE) % SlotBytes
             IN IF rel < 4
                THEN U32Byte(IF s = 0 THEN l0 ELSE l1, rel)
                ELSE PayloadByte(s, rel - 4)]

(***************************************************************************)
(* What a method returned to JavaScript.                                   *)
(***************************************************************************)
NoRet == [op |-> "", kind |-> "pending", err |-> "", num |-> 0, obj |-> <<>>]
Threw(o, e) == [op |-> o, kind |-> "error", err |-> e, num |-> 0, obj |-> <<>>]
RetNull(o) == [op |-> o, kind |-> "null", err |-> "", num |-> 0, obj |-> <<>>]
RetUndefined(o) == [op |-> o, kind |-> "undefined", err |-> "", num |-> 0, obj |-> <<>>]
RetNumber(o, n) == [op |-> o, kind |-> "number", err |-> "", num |-> n, obj |-> <<>>]
RetBuffer(o) == [op |-> o, kind |-> "buffer", err |-> "", num |-> 0, obj |-> <<>>]
RetObject(o, t) == [op |-> o, kind |-> "object", err |-> "", num |-> 0, obj |-> t]

\* The system calls made for a handle, and what the system answered to its
\* constructor: whether open, fstat and mmap succeed.
NoSys == [opens |-> 0, closes |-> 0, maps |-> 0, unmaps |-> 0,
          canOpen |-> TRUE, canStat |-> TRUE, canMap |-> TRUE]

\* The writer between two frames: lens[k] is the payload length of the k-th
\* frame it began, todo the parts of the current slot still to be stored.
NoProd == [pc |-> "idle", lens |-> <<>>, todo |-> {}]

\* No store by the writer yet, no handle constructed yet.
InitRest ==
    /\ scribbles = 0
    /\ prod = NoProd
    /\ phase = [h \in Handles |-> "new"]
    /\ fd_ = [h \in Handles |-> -1]
    /\ buf_ = [h \in Handles |-> nullptr]
    /\ file_size_ = [h \in Handles |-> 0]
    /\ sys = [h \in Handles |-> NoSys]
    /\ pc = [h \in Handles |-> "idle"]
    /\ write_idx = [h \in Handles |-> 0]
    /\ ring_size = [h \in Handles |-> 0]
    /\ slot_size = [h \in Handles |-> 0]
    /\ slot = [h \in Handles |-> 0]
    /\ offset = [h \in Handles |-> 0]
    /\ length = [h \in Handles |-> 0]
    /\ out = [h \in Handles |-> <<>>]
    /\ ret = [h \in Handles |-> NoRet]
    /\ reads = [h \in Handles |-> {}]
    /\ touched = [h \in Handles |-> FALSE]

Init ==
    /\ \E fl \in FileLens, wi \in WriteIndexes, rs \in RingSizes, ss \in SlotSizes,
          l0 \in FirstLengths, l1 \in OtherLengths :
          /\ fileLen = fl
          /\ mem = FileImage(fl, wi, rs, ss, l0, l1)
    /\ InitRest

(***************************************************************************)
(* The writer process: it may store any byte of the file at any instant.   *)
(* Stores made before a consumer attached are initial file images.         *)
(***************************************************************************)
Scribble ==
    /\ scribbles < MaxScribbles
    /\ \E h \in Handles : phase[h] = "live"
    /\ \E i \in ScribbleIdx \cap DOMAIN mem, v \in ScribbleVals :
          /\ mem[i] # v
          /\ mem' = [mem EXCEPT ![i] = v]
    /\ scribbles' = scribbles + 1
    /\ touched' = [h \in Handles |-> TRUE]
    /\ UNCHANGED <<fileLen, prod, handleVars, pc, localVars, ret, reads>>

(***************************************************************************)
(* SharedMemoryReader(path): open, fstat, mmap.                            *)
(***************************************************************************)
\* Variant: a file of exactly HEADER_SIZE bytes is rejected.
TooSmall_OrEqual(size) == size <= HEADER_SIZE

\* st.st_size < static_cast<off_t>(HEADER_SIZE)
TooSmall(size) == size < HEADER_SIZE

Construct(h) ==
    /\ phase[h] = "new"
    /\ \E argOk \in BOOLEAN, openOk \in BOOLEAN, statOk \in BOOLEAN, mapOk \in BOOLEAN :
          LET answered == [sys[h] EXCEPT !.canOpen = openOk, !.canStat = statOk,
                                         !.canMap = mapOk]
          IN
          IF ~argOk
          THEN /\ ret' = [ret EXCEPT ![h] = Threw("new", "TypeError")]
               /\ phase' = [phase EXCEPT ![h] = "failed"]
               /\ UNCHANGED <<fd_, buf_, file_size_, sys>>
          ELSE IF ~openOk
          THEN /\ ret' = [ret EXCEPT ![h] = Threw("new", "OpenError")]
               /\ phase' = [phase EXCEPT ![h] = "failed"]
               /\ sys' = [sys EXCEPT ![h] = answered]
               /\ UNCHANGED <<fd_, buf_, file_size_>>
          ELSE IF ~statOk \/ TooSmall(fileLen)
          THEN /\ ret' = [ret EXCEPT ![h] = Threw("new", "SizeError")]
               /\ phase' = [phase EXCEPT ![h] = "failed"]
               /\ sys' = [sys EXCEPT ![h] = [answered EXCEPT !.opens = @ + 1,
                                                             !.closes = @ + 1]]
               /\ UNCHANGED <<fd_, buf_, file_size_>>
          ELSE IF ~mapOk
          THEN /\ ret' = [ret EXCEPT ![h] = Threw("new", "MapError")]
               /\ phase' = [phase EXCEPT ![h] = "failed"]
               /\ file_size_' = [file_size_ EXCEPT ![h] = fileLen]
               /\ sys' = [sys EXCEPT ![h] = [answered EXCEPT !.opens = @ + 1,
                                                             !.closes = @ + 1]]
               /\ UNCHANGED <<fd_, buf_>>
          ELSE /\ ret' = [ret EXCEPT ![h] = RetObject("new", <<>>)]
               /\ phase' = [phase EXCEPT ![h] = "live"]
               /\ fd_' = [fd_ EXCEPT ![h] = 2 + h]
               /\ file_size_' = [file_size_ EXCEPT ![h] = fileLen]
               /\ buf_' = [buf_ EXCEPT ![h] = MapBase]
               /\ sys' = [sys EXCEPT ![h] = [answered EXCEPT !.opens = @ + 1,
                                                             !.maps = @ + 1]]
    /\ UNCHANGED <<envVars, pc, localVars, reads, touched>>

(***************************************************************************)
(* DoClose, close() and the destructor.                                    *)
(***************************************************************************)
\* Variant: munmap and close are called without the two guards.
DoClose_Unguarded(h) ==
    /\ buf_' = [buf_ EXCEPT ![h] = nullptr]
    /\ fd_' = [fd_ EXCEPT ![h] = -1]
    /\ sys' = [sys EXCEPT ![h].unmaps = @ + 1, ![h].closes = @ + 1]

\* Variant: the descriptor is closed but the mapping is kept.
DoClose_KeepsMapping(h) ==
    /\ buf_' = buf_
    /\ fd_' = [fd_ EXCEPT ![h] = -1]
    /\ sys' = [sys EXCEPT ![h].closes = IF fd_[h] >= 0 THEN @ + 1 ELSE @]

\* Variant: descriptor and mapping are shared by all handles of the process,
\* and closing one handle releases them for every handle.
DoClose_AllHandles(h) ==
    /\ buf_' = [g \in Handles |-> nullptr]
    /\ fd_' = [g \in Handles |-> -1]
    /\ sys' = [sys EXCEPT ![h].unmaps = IF buf_[h] # nullptr THEN @ + 1 ELSE @,
                          ![h].closes = IF fd_[h] >= 0 THEN @ + 1 ELSE @]

DoClose(h) ==
    /\ buf_' = [buf_ EXCEPT ![h] = nullptr]
    /\ fd_' = [fd_ EXCEPT ![h] = -1]
    /\ sys' = [sys EXCEPT ![h].unmaps = IF buf_[h] # nullptr THEN @ + 1 ELSE @,
                          ![h].closes = IF fd_[h] >= 0 THEN @ + 1 ELSE @]

Close(h) ==
    /\ phase[h] = "live"
    /\ pc[h] = "idle"
    /\ DoClose(h)
    /\ ret' = [ret EXCEPT ![h] = RetUndefined("close")]
    /\ UNCHANGED <<envVars, phase, file_size_, pc, localVars, reads, touched>>

Destroy(h) ==
    /\ phase[h] \in {"live", "failed"}
    /\ pc[h] = "idle"
    /\ DoClose(h)
    /\ phase' = [phase EXCEPT ![h] = "destroyed"]
    /\ UNCHANGED <<envVars, file_size_, pc, localVars, ret, reads, touched>>

(***************************************************************************)
(* ReadLatestFrame.                                                        *)
(***************************************************************************)
\* Variant: the write_idx test is missing.
NoFramesYet_Never(wi) == FALSE

\* if (write_idx == 0)
NoFramesYet(wi) == wi = 0

\* Variant: write_idx % ring_size, the slot the writer fills next.
LatestSlot_NoMinusOne(wi, rs) == wi % rs

\* (write_idx - 1) % ring_size in uint32_t, for ring_size # 0.
LatestSlot(wi, rs) == ((wi - 1) % U32Mod) % rs

\* The remainder by zero is undefined.  What a build does with it: the divide
\* instruction traps and the process dies (x86), or the quotient is 0 and the
\* remainder is the dividend (AArch64 udiv/msub).
DivZeroOutcomes(wi) == {"trap", "dividend"}

\* Variant: the product and the sum taken in uint32_t, without the cast.
SlotOffset_32bit(s, ss) == (HEADER_SIZE + ((s * ss) % U32Mod)) % U32Mod

\* HEADER_SIZE + static_cast<size_t>(slot) * slot_size in size_t.
SlotOffset(s, ss) == (HEADER_SIZE + ((s * ss) % SizeMod)) % SizeMod

\* Variant: the check forgets the four bytes of the prefix.
PrefixOutOfBounds_NoPlus4(off, fsz) == off > fsz

\* if (offset + 4 > file_size_)
PrefixOutOfBounds(off, fsz) == (off + 4) % SizeMod > fsz

\* Variants: no payload bound; a payload bound without the prefix; no test of
\* a zero length.
FrameRejected_LengthOnly(len, off, fsz) == len = 0
FrameRejected_NoPlus4(len, off, fsz) == len = 0 \/ (off + len) % SizeMod > fsz
FrameRejected_NoZeroTest(len, off, fsz) == (off + 4 + len) % SizeMod > fsz

\* Variant: a frame is also rejected when its payload does not fit the slot
\* the header declares.
FrameRejected_SlotBounded(len, off, fsz) ==
    \/ len = 0
    \/ (off + 4 + len) % SizeMod > fsz
    \/ \E h \in Handles : pc[h] = "ld_len" /\ offset[h] = off /\ len + 4 > slot_size[h]

\* if (length == 0 || offset + 4 + length > file_size_)
FrameRejected(len, off, fsz) == len = 0 \/ (off + 4 + len) % SizeMod > fsz

\* A copy that starts at the slot's first byte, the length prefix included.
CopySrc_NoPrefix(off, i) == off + i

\* Source index of payload byte i: buf_ + offset + 4.
CopySrc(off, i) == off + 4 + i

ResetLocals(h) ==
    /\ ring_size' = [ring_size EXCEPT ![h] = 0]
    /\ slot_size' = [slot_size EXCEPT ![h] = 0]
    /\ slot' = [slot EXCEPT ![h] = 0]
    /\ offset' = [offset EXCEPT ![h] = 0]
    /\ length' = [length EXCEPT ![h] = 0]
    /\ out' = [out EXCEPT ![h] = <<>>]

\* An entry with a per-handle cursor: a frame this handle already returned is
\* consumed, and the next call reports no frame (the source keeps no cursor).
RLF_Begin_Cursor(h) ==
    /\ phase[h] = "live"
    /\ pc[h] = "idle"
    /\ ResetLocals(h)
    /\ touched' = [touched EXCEPT ![h] = FALSE]
    /\ IF buf_[h] = nullptr
       THEN /\ ret' = [ret EXCEPT ![h] = Threw("readLatestFrame", "ClosedError")]
            /\ write_idx' = [write_idx EXCEPT ![h] = 0]
            /\ reads' = [reads EXCEPT ![h] = {}]
            /\ pc' = pc
       ELSE IF ret[h] = RetBuffer("readLatestFrame")
               /\ write_idx[h] = U32At(mem, OffWriteIndex)
       THEN /\ ret' = [ret EXCEPT ![h] = RetNull("readLatestFrame")]
            /\ write_idx' = write_idx
            /\ reads' = [reads EXCEPT ![h] = Span(OffWriteIndex, 4)]
            /\ pc' = pc
       ELSE /\ ret' = [ret EXCEPT ![h] = NoRet]
            /\ write_idx' = [write_idx EXCEPT ![h] = U32At(mem, OffWriteIndex)]
            /\ reads' = [reads EXCEPT ![h] = Span(OffWriteIndex, 4)]
            /\ pc' = [pc EXCEPT ![h] = "ld_ring"]
    /\ UNCHANGED <<envVars, handleVars>>

\* Entry: the closed check, then the load of hdr->write_index.
RLF_Begin(h) ==
    /\ phase[h] = "live"
    /\ pc[h] = "idle"
    /\ ResetLocals(h)
    /\ touched' = [touched EXCEPT ![h] = FALSE]
    /\ IF buf_[h] = nullptr
       THEN /\ ret' = [ret EXCEPT ![h] = Threw("readLatestFrame", "ClosedError")]
            /\ write_idx' = [write_idx EXCEPT ![h] = 0]
            /\ reads' = [reads EXCEPT ![h] = {}]
            /\ pc' = pc
       ELSE /\ ret' = [ret EXCEPT ![h] = NoRet]
            /\ write_idx' = [write_idx EXCEPT ![h] = U32At(mem, OffWriteIndex)]
            /\ reads' = [reads EXCEPT ![h] = Span(OffWriteIndex, 4)]
            /\ pc' = [pc EXCEPT ![h] = "ld_ring"]
    /\ UNCHANGED <<envVars, handleVars>>

\* The load of hdr->ring_size.
RLF_LoadRingSize(h) ==
    /\ pc[h] = "ld_ring"
    /\ ring_size' = [ring_size EXCEPT ![h] = U32At(mem, OffRingSize)]
    /\ reads' = [reads EXCEPT ![h] = @ \cup Span(OffRingSize, 4)]
    /\ pc' = [pc EXCEPT ![h] = "ld_slot"]
    /\ UNCHANGED <<envVars, handleVars, write_idx, slot_size, slot, offset, length,
                   out, ret, touched>>

\* Variant: the handle is closed when the slot offset is out of bounds.
RLF_LoadSlotSize_ClosesOnError(h) ==
    /\ pc[h] = "ld_slot"
    /\ LET ss == U32At(mem, OffSlotSize)
           wi == write_idx[h]
           rs == ring_size[h]
       IN /\ slot_size' = [slot_size EXCEPT ![h] = ss]
          /\ reads' = [reads EXCEPT ![h] = @ \cup Span(OffSlotSize, 4)]
          /\ IF NoFramesYet(wi)
             THEN /\ ret' = [ret EXCEPT ![h] = RetNull("readLatestFrame")]
                  /\ pc' = [pc EXCEPT ![h] = "idle"]
                  /\ UNCHANGED <<slot, offset, phase, fd_, buf_, sys>>
             ELSE \E o \in (IF rs = 0 THEN DivZeroOutcomes(wi) ELSE {"defined"}) :
                    IF o = "trap"
                    THEN /\ phase' = [phase EXCEPT ![h] = "crashed"]
                         /\ pc' = [pc EXCEPT ![h] = "dead"]
                         /\ UNCHANGED <<slot, offset, ret, fd_, buf_, sys>>
                    ELSE LET s == IF o = "defined" THEN LatestSlot(wi, rs)
                                  ELSE (wi - 1) % U32Mod
                             off == SlotOffset(s, ss)
                         IN /\ slot' = [slot EXCEPT ![h] = s]
                            /\ offset' = [offset EXCEPT ![h] = off]
                            /\ phase' = phase
                            /\ IF PrefixOutOfBounds(off, file_size_[h])
                               THEN /\ ret' = [ret EXCEPT ![h] =
                                           Threw("readLatestFrame", "BoundsError")]
                                    /\ pc' = [pc EXCEPT ![h] = "idle"]
                                    /\ DoClose(h)
                               ELSE /\ ret' = ret
                                    /\ UNCHANGED <<fd_, buf_, sys>>
                                    /\ pc' = [pc EXCEPT ![h] = "ld_len"]
    /\ UNCHANGED <<envVars, file_size_, write_idx, ring_size, length,
                   out, touched>>

\* The load of hdr->slot_size, then the code up to the load of the length
\* prefix: the write_idx test, the slot, the offset and its bounds check.
RLF_LoadSlotSize(h) ==
    /\ pc[h] = "ld_slot"
    /\ LET ss == U32At(mem, OffSlotSize)
           wi == write_idx[h]
           rs == ring_size[h]
       IN /\ slot_size' = [slot_size EXCEPT ![h] = ss]
          /\ reads' = [reads EXCEPT ![h] = @ \cup Span(OffSlotSize, 4)]
          /\ IF NoFramesYet(wi)
             THEN /\ ret' = [ret EXCEPT ![h] = RetNull("readLatestFrame")]
                  /\ pc' = [pc EXCEPT ![h] = "idle"]
                  /\ UNCHANGED <<slot, offset, phase>>
             ELSE \E o \in (IF rs = 0 THEN DivZeroOutcomes(wi) ELSE {"defined"}) :
                    IF o = "trap"
                    THEN /\ phase' = [phase EXCEPT ![h] = "crashed"]
                         /\ pc' = [pc EXCEPT ![h] = "dead"]
                         /\ UNCHANGED <<slot, offset, ret>>
                    ELSE LET s == IF o = "defined" THEN LatestSlot(wi, rs)
                                  ELSE (wi - 1) % U32Mod
                             off == SlotOffset(s, ss)
                         IN /\ slot' = [slot EXCEPT ![h] = s]
                            /\ offset' = [offset EXCEPT ![h] = off]
                            /\ phase' = phase
                            /\ IF PrefixOutOfBounds(off, file_size_[h])
                               THEN /\ ret' = [ret EXCEPT ![h] =
                                           Threw("readLatestFrame", "BoundsError")]
                                    /\ pc' = [pc EXCEPT ![h] = "idle"]
                               ELSE /\ ret' = ret
                                    /\ pc' = [pc EXCEPT ![h] = "ld_len"]
    /\ UNCHANGED <<envVars, fd_, buf_, file_size_, sys, write_idx, ring_size, length,
                   out, touched>>

\* std::memcpy(&length, buf_ + offset, 4) and the test of the length.
RLF_LoadLength(h) ==
    /\ pc[h] = "ld_len"
    /\ LET len == U32At(mem, offset[h])
       IN /\ length' = [length EXCEPT ![h] = len]
          /\ reads' = [reads EXCEPT ![h] = @ \cup Span(offset[h], 4)]
          /\ IF FrameRejected(len, offset[h], file_size_[h])
             THEN /\ ret' = [ret EXCEPT ![h] = RetNull("readLatestFrame")]
                  /\ pc' = [pc EXCEPT ![h] = "idle"]
             ELSE IF len = 0
             THEN /\ ret' = [ret EXCEPT ![h] = RetBuffer("readLatestFrame")]
                  /\ pc' = [pc EXCEPT ![h] = "idle"]
             ELSE /\ ret' = ret
                  /\ pc' = [pc EXCEPT ![h] = "copy"]
    /\ UNCHANGED <<envVars, handleVars, write_idx, ring_size, slot_size, slot, offset,
                   out, touched>>

\* A copy that loads write_index again when it completes and gives the frame
\* up when the writer has published meanwhile (the source has no such load).
RLF_CopyByte_Revalidates(h) ==
    /\ pc[h] = "copy"
    /\ LET src == CopySrc(offset[h], Len(out[h]))
           buf == Append(out[h], Peek(mem, src))
       IN /\ out' = [out EXCEPT ![h] = buf]
          /\ reads' = [reads EXCEPT ![h] = @ \cup {src}]
          /\ IF Len(buf) = length[h]
             THEN /\ ret' = [ret EXCEPT ![h] =
                                IF U32At(mem, OffWriteIndex) = write_idx[h]
                                THEN RetBuffer("readLatestFrame")
                                ELSE RetNull("readLatestFrame")]
                  /\ pc' = [pc EXCEPT ![h] = "idle"]
             ELSE /\ ret' = ret
                  /\ pc' = pc
    /\ UNCHANGED <<envVars, handleVars, write_idx, ring_size, slot_size, slot, offset,
                   length, touched>>

\* Napi::Buffer<uint8_t>::Copy(env, buf_ + offset + 4, length): one byte of
\* the copy into the new buffer; the call returns after the last one.
RLF_CopyByte(h) ==
    /\ pc[h] = "copy"
    /\ LET src == CopySrc(offset[h], Len(out[h]))
           buf == Append(out[h], Peek(mem, src))
       IN /\ out' = [out EXCEPT ![h] = buf]
          /\ reads' = [reads EXCEPT ![h] = @ \cup {src}]
          /\ IF Len(buf) = length[h]
             THEN /\ ret' = [ret EXCEPT ![h] = RetBuffer("readLatestFrame")]
                  /\ pc' = [pc EXCEPT ![h] = "idle"]
             ELSE /\ ret' = ret
                  /\ pc' = pc
    /\ UNCHANGED <<envVars, handleVars, write_idx, ring_size, slot_size, slot, offset,
                   length, touched>>

\* Variant: the Buffer is a view of the mapping (no copy), empty once unmapped.
FrameBytes_View(h) ==
    IF buf_[h] = nullptr THEN <<>>
    ELSE [i \in 1 .. Len(out[h]) |-> Peek(mem, offset[h] + 4 + (i - 1))]

\* The bytes JavaScript finds in the Buffer the last readLatestFrame built:
\* Buffer::Copy gave it storage of its own, filled by the copy.
FrameBytes(h) == out[h]

(***************************************************************************)
(* GetWriteIndex and GetMetadata.                                          *)
(***************************************************************************)
\* Variant: the value is passed as int32_t.
U32ToNumber_Int32(x) == IF 2 * x >= U32Mod THEN x - U32Mod ELSE x

\* Napi::Number::New(env, uint32_t): the uint32_t is converted to double, which
\* represents every uint32_t exactly.
U32ToNumber(x) == x

GetWriteIndex(h) ==
    /\ phase[h] = "live"
    /\ pc[h] = "idle"
    /\ IF buf_[h] = nullptr
       THEN /\ ret' = [ret EXCEPT ![h] = RetNumber("getWriteIndex", -1)]
            /\ reads' = [reads EXCEPT ![h] = {}]
       ELSE /\ ret' = [ret EXCEPT ![h] =
                   RetNumber("getWriteIndex", U32ToNumber(U32At(mem, OffWriteIndex)))]
            /\ reads' = [reads EXCEPT ![h] = Span(OffWriteIndex, 4)]
    /\ UNCHANGED <<envVars, handleVars, pc, localVars, touched>>

\* Variant: slotSize and ringSize are taken from each other's field.
GetMetadata_SwapsSizes(h) ==
    /\ phase[h] = "live"
    /\ pc[h] = "idle"
    /\ IF buf_[h] = nullptr
       THEN /\ ret' = [ret EXCEPT ![h] = Threw("getMetadata", "ClosedError")]
            /\ reads' = [reads EXCEPT ![h] = {}]
       ELSE /\ ret' = [ret EXCEPT ![h] = RetObject("getMetadata",
                   <<U32ToNumber(U32At(mem, OffWriteIndex)),
                     U32ToNumber(U32At(mem, OffFrameCount)),
                     U32ToNumber(U32At(mem, OffRingSize)),
                     U32ToNumber(U32At(mem, OffSlotSize)),
                     U32ToNumber(U32At(mem, OffWidth)),
                     U32ToNumber(U32At(mem, OffHeight))>>)]
            /\ reads' = [reads EXCEPT ![h] = Span(OffWriteIndex, 24)]
    /\ UNCHANGED <<envVars, handleVars, pc, localVars, touched>>

\* The six loads of GetMetadata are taken as one step.
GetMetadata(h) ==
    /\ phase[h] = "live"
    /\ pc[h] = "idle"
    /\ IF buf_[h] = nullptr
       THEN /\ ret' = [ret EXCEPT ![h] = Threw("getMetadata", "ClosedError")]
            /\ reads' = [reads EXCEPT ![h] = {}]
       ELSE /\ ret' = [ret EXCEPT ![h] = RetObject("getMetadata",
                   <<U32ToNumber(U32At(mem, OffWriteIndex)),
                     U32ToNumber(U32At(mem, OffFrameCount)),
                     U32ToNumber(U32At(mem, OffSlotSize)),
                     U32ToNumber(U32At(mem, OffRingSize)),
                     U32ToNumber(U32At(mem, OffWidth)),
                     U32ToNumber(U32At(mem, OffHeight))>>)]
            /\ reads' = [reads EXCEPT ![h] = Span(OffWriteIndex, 24)]
    /\ UNCHANGED <<envVars, handleVars, pc, localVars, touched>>

(***************************************************************************)
(* One consumer handle and the writer process.                             *)
(***************************************************************************)
Next ==
    \/ Scribble
    \/ \E h \in SpecHandles : Construct(h)
    \/ \E h \in SpecHandles : RLF_Begin(h)
    \/ \E h \in SpecHandles : RLF_LoadRingSize(h)
    \/ \E h \in SpecHandles : RLF_LoadSlotSize(h)
    \/ \E h \in SpecHandles : RLF_LoadLength(h)
    \/ \E h \in SpecHandles : RLF_CopyByte(h)
    \/ \E h \in SpecHandles : GetWriteIndex(h)
    \/ \E h \in SpecHandles : GetMetadata(h)
    \/ \E h \in SpecHandles : Close(h)
    \/ \E h \in SpecHandles : Destroy(h)

Spec == Init /\ [][Next]_vars

(***************************************************************************)
(* A writer that keeps the producer contract on a well-formed file: it     *)
(* stores the length prefix and the payload of frame write_index + 1 into  *)
(* slot write_index mod ring_size, in any order, and only then increments  *)
(* write_index.  Every payload byte of the k-th frame holds FrameTag(k).   *)
(***************************************************************************)
FrameTag(k) == k % ByteBase
Frame(k) == [i \in 1 .. prod.lens[k] |-> FrameTag(k)]

RingImage(fl, rs, ss) ==
    [i \in 0 .. (fl - 1) |->
        IF i < HEADER_SIZE THEN FileImage(fl, 0, rs, ss, 0, 0)[i] ELSE 0]

InitRing ==
    /\ fileLen = HEADER_SIZE + MaxSlots * SlotBytes
    /\ \E rs \in 1 .. MaxSlots : mem = RingImage(fileLen, rs, SlotBytes)
    /\ InitRest

ProdOffset ==
    HEADER_SIZE + (U32At(mem, OffWriteIndex) % U32At(mem, OffRingSize))
                      * U32At(mem, OffSlotSize)

StoreU32(m, off, v) ==
    [i \in DOMAIN m |-> IF i \in Span(off, 4) THEN U32Byte(v, i - off) ELSE m[i]]

\* The writer takes up the next frame and chooses its length.
Prod_BeginFrame ==
    /\ prod.pc = "idle"
    /\ Len(prod.lens) < MaxFrames
    /\ \E n \in 1 .. (U32At(mem, OffSlotSize) - 4) :
          prod' = [pc |-> "slot", lens |-> Append(prod.lens, n),
                   todo |-> (-1) .. (n - 1)]
    /\ UNCHANGED <<mem, fileLen, scribbles, handleVars, pc, localVars, ret, reads,
                   touched>>

\* One store into the slot: the length prefix (part -1) or payload byte u.
Prod_Store ==
    /\ prod.pc = "slot"
    /\ \E u \in prod.todo :
          /\ mem' = IF u = -1
                    THEN StoreU32(mem, ProdOffset, prod.lens[Len(prod.lens)])
                    ELSE [mem EXCEPT ![ProdOffset + 4 + u] = FrameTag(Len(prod.lens))]
          /\ prod' = [prod EXCEPT !.todo = @ \ {u},
                                  !.pc = IF prod.todo = {u} THEN "publish" ELSE "slot"]
    /\ touched' = [h \in Handles |-> TRUE]
    /\ UNCHANGED <<fileLen, scribbles, handleVars, pc, localVars, ret, reads>>

\* The slot is complete: write_index (and frame_count) are incremented.
Prod_Publish ==
    /\ prod.pc = "publish"
    /\ mem' = StoreU32(StoreU32(mem, OffWriteIndex, Len(prod.lens)),
                       OffFrameCount, Len(prod.lens))
    /\ prod' = [prod EXCEPT !.pc = "idle"]
    /\ touched' = [h \in Handles |-> TRUE]
    /\ UNCHANGED <<fileLen, scribbles, handleVars, pc, localVars, ret, reads>>

NextRing ==
    \/ Prod_BeginFrame
    \/ Prod_Store
    \/ Prod_Publish
    \/ \E h \in SpecHandles : Construct(h)
    \/ \E h \in SpecHandles : RLF_Begin(h)
    \/ \E h \in SpecHandles : RLF_LoadRingSize(h)
    \/ \E h \in SpecHandles : RLF_LoadSlotSize(h)
    \/ \E h \in SpecHandles : RLF_LoadLength(h)
    \/ \E h \in SpecHandles : RLF_CopyByte(h)

SpecRing == InitRing /\ [][NextRing]_vars

(***************************************************************************)
(* Several consumers of one file: every handle is constructed, read and    *)
(* closed on its own, interleaved step by step with the other handles and  *)
(* with the contract-keeping writer.  The file is the smallest well-formed *)
(* ring, one slot of one payload byte, where every store of the writer     *)
(* lands in the slot the handles read.                                     *)
(***************************************************************************)
InitMulti ==
    /\ fileLen = HEADER_SIZE + (4 + 1)
    /\ mem = RingImage(fileLen, 1, 4 + 1)
    /\ InitRest

NextMulti ==
    \/ Prod_BeginFrame
    \/ Prod_Store
    \/ Prod_Publish
    \/ \E h \in Handles : Construct(h)
    \/ \E h \in Handles : RLF_Begin(h)
    \/ \E h \in Handles : RLF_LoadRingSize(h)
    \/ \E h \in Handles : RLF_LoadSlotSize(h)
    \/ \E h \in Handles : RLF_LoadLength(h)
    \/ \E h \in Handles : RLF_CopyByte(h)
    \/ \E h \in Handles : Close(h)

SpecMulti == InitMulti /\ [][NextMulti]_vars

(***************************************************************************)
(* Vocabulary of the properties.                                           *)
(***************************************************************************)
RLF == "readLatestFrame"

\* The last call on h is a readLatestFrame, running or returned.
InOrAfterRLF(h) == ret[h].op = RLF \/ pc[h] # "idle"

\* That call found the handle open and has decoded write_index, ring_size and
\* slot_size into its locals.
Decoded(h) ==
    /\ InOrAfterRLF(h)
    /\ pc[h] \notin {"ld_ring", "ld_slot"}
    /\ ret[h].err # "ClosedError"

\* That call has also decoded the length prefix of its slot.
LengthDecoded(h) ==
    /\ Decoded(h)
    /\ write_idx[h] > 0
    /\ pc[h] \in {"idle", "copy"}
    /\ ret[h].err # "BoundsError"

HeaderBytes == Span(0, HEADER_SIZE)
SlotReads(h) == reads[h] \ HeaderBytes
IsClosed(h) == phase[h] \in {"live", "destroyed"} /\ buf_[h] = nullptr /\ fd_[h] = -1
ExactOffset(wi, rs, ss) == HEADER_SIZE + ((wi - 1) % rs) * ss

(***************************************************************************)
(* C1.  Every byte that readLatestFrame, getWriteIndex and getMetadata     *)
(* load from the mapping lies in [0, mapped_length), whatever the mapped   *)
(* bytes hold and however the writer changes them between two steps: the   *)
(* length prefix is loaded only when offset + 4 <= mapped_length, and the  *)
(* payload copy covers only [offset + 4, offset + 4 + length) with         *)
(* offset + 4 + length <= mapped_length.                                   *)
(***************************************************************************)
C1_ReadsInsideMapping ==
    \A h \in Handles :
        /\ reads[h] \subseteq DOMAIN mem
        /\ reads[h] \subseteq 0 .. (file_size_[h] - 1)
        /\ SlotReads(h) # {} =>
              /\ offset[h] + 4 <= file_size_[h]
              /\ SlotReads(h) \subseteq Span(offset[h], 4 + length[h])
        /\ out[h] # <<>> =>
              /\ offset[h] + 4 + length[h] <= file_size_[h]
              /\ Len(out[h]) <= length[h]
              /\ InOrAfterRLF(h) =>
                    \A i \in 1 .. Len(out[h]) : offset[h] + 4 + (i - 1) \in reads[h]

\* A frame was copied out of a mapping the writer changed during the call.
C1_Witness ==
    \E h \in Handles :
        /\ ret[h].op = RLF /\ ret[h].kind = "buffer"
        /\ touched[h]
        /\ Len(out[h]) > PayloadCap
        /\ offset[h] + 4 + length[h] = file_size_[h] - 1

(***************************************************************************)
(* C2.  With write_index > 0 and ring_size == 0 on an open handle,         *)
(* readLatestFrame fails with BoundsError and never evaluates a remainder  *)
(* by zero.  (The code has no such guard: this states the claim, which the *)
(* code violates.)                                                         *)
(***************************************************************************)
C2_RingSizeZeroIsBoundsError ==
    \A h \in Handles :
        (Decoded(h) /\ write_idx[h] > 0 /\ ring_size[h] = 0) =>
            /\ phase[h] # "crashed"
            /\ pc[h] = "idle"
            /\ ret[h] = Threw(RLF, "BoundsError")

(***************************************************************************)
(* C3.  With write_index = k > 0 and ring_size = R > 0, readLatestFrame    *)
(* takes its length prefix and payload from slot (k-1) mod R, at byte      *)
(* offset 64 + ((k-1) mod R) * slot_size, and k + R selects the same slot  *)
(* as k.                                                                   *)
(***************************************************************************)
C3_LatestSlotSelected ==
    \A h \in Handles :
        (Decoded(h) /\ write_idx[h] > 0 /\ ring_size[h] > 0) =>
            /\ slot[h] = (write_idx[h] - 1) % ring_size[h]
            /\ offset[h] = HEADER_SIZE + slot[h] * slot_size[h]
            /\ SlotReads(h) \subseteq Span(offset[h], 4 + length[h])
            /\ LengthDecoded(h) => Span(offset[h], 4) \subseteq reads[h]
            /\ ret[h].kind = "buffer" =>
                  \A i \in 1 .. length[h] : offset[h] + 4 + (i - 1) \in reads[h]
            /\ write_idx[h] + ring_size[h] <= U32Max =>
                  LatestSlot(write_idx[h] + ring_size[h], ring_size[h]) = slot[h]

\* Wraparound: a frame was returned from slot 0 with write_index > ring_size > 1.
C3_Witness ==
    \E h \in Handles :
        /\ Decoded(h) /\ ret[h].kind = "buffer"
        /\ ring_size[h] > 1 /\ write_idx[h] > ring_size[h]
        /\ slot[h] = 0 /\ slot_size[h] > 0

(***************************************************************************)
(* C4.  Round trip: when the selected slot holds a length prefix L > 0     *)
(* followed by L bytes with offset + 4 + L <= mapped_length, and the       *)
(* mapping is not modified during the call, readLatestFrame returns        *)
(* exactly those L bytes in order; and the returned bytes are a copy: a    *)
(* later store by the writer or a later close leaves them unchanged.       *)
(***************************************************************************)
C4_SlotLength(h) == U32At(mem, offset[h])

C4_RoundTripState ==
    \A h \in Handles :
        ( /\ Decoded(h) /\ pc[h] = "idle" /\ ret[h].op = RLF
          /\ ~touched[h]
          /\ write_idx[h] > 0 /\ ring_size[h] > 0
          /\ offset[h] + 4 <= file_size_[h]
          /\ C4_SlotLength(h) > 0
          /\ offset[h] + 4 + C4_SlotLength(h) <= file_size_[h] ) =>
            /\ ret[h] = RetBuffer(RLF)
            /\ FrameBytes(h) = [i \in 1 .. C4_SlotLength(h) |-> mem[offset[h] + 4 + (i - 1)]]

C4_CopyIsOwned ==
    \A h \in Handles :
        ( /\ pc[h] = "idle" /\ out[h] # <<>>
          /\ pc'[h] = "idle"
          /\ mem' # mem \/ buf_'[h] # buf_[h] ) =>
            FrameBytes(h)' = FrameBytes(h)

\* C4: the round trip of an unmodified slot, and the returned bytes staying as
\* they were under later stores and close.
C4_RoundTrip == []C4_RoundTripState /\ [][C4_CopyIsOwned]_vars

\* A returned frame whose source byte the writer has since overwritten, on a
\* handle that has since been closed.
C4_Witness ==
    \E h \in Handles :
        /\ pc[h] = "idle" /\ Len(out[h]) = length[h] /\ length[h] > 1
        /\ touched[h]
        /\ IsClosed(h)
        /\ mem[offset[h] + 4] # out[h][1]
        /\ out[h][1] # out[h][2]

(***************************************************************************)
(* C5.  With write_index == 0 on an open handle readLatestFrame returns    *)
(* null, not an error, whatever ring_size and slot_size are (0 included)   *)
(* and also for a file of exactly 64 bytes.                                *)
(***************************************************************************)
C5_NoFrameYetIsNull ==
    \A h \in Handles :
        (Decoded(h) /\ write_idx[h] = 0) =>
            /\ pc[h] = "idle"
            /\ phase[h] # "crashed"
            /\ ret[h] = RetNull(RLF)
            /\ SlotReads(h) = {}

C5_Witness ==
    \E h \in Handles :
        /\ Decoded(h) /\ write_idx[h] = 0 /\ ret[h] = RetNull(RLF)
        /\ ring_size[h] = 0 /\ slot_size[h] = 0
        /\ file_size_[h] = HEADER_SIZE
        /\ Span(OffRingSize, 4) \subseteq reads[h]

(***************************************************************************)
(* C6.  With write_index > 0 and ring_size > 0, if the selected slot's     *)
(* offset has offset + 4 > mapped_length, readLatestFrame fails with       *)
(* BoundsError (not null) and does not load the length prefix.             *)
(***************************************************************************)
C6_PrefixOutOfBoundsThrows ==
    \A h \in Handles :
        ( /\ Decoded(h) /\ write_idx[h] > 0 /\ ring_size[h] > 0
          /\ ExactOffset(write_idx[h], ring_size[h], slot_size[h]) + 4 > file_size_[h] ) =>
            /\ pc[h] = "idle"
            /\ ret[h] = Threw(RLF, "BoundsError")
            /\ SlotReads(h) = {}
            /\ out[h] = <<>>

\* The slot starts inside the mapping but its prefix does not fit.
C6_Witness ==
    \E h \in Handles :
        /\ Decoded(h) /\ write_idx[h] > 0 /\ ring_size[h] > 0
        /\ ret[h] = Threw(RLF, "BoundsError")
        /\ offset[h] < file_size_[h]
        /\ offset[h] + 4 > file_size_[h]

(***************************************************************************)
(* C7.  When the length prefix is readable and offset + 4 + length >       *)
(* mapped_length, readLatestFrame returns null, raises no error and copies *)
(* no payload byte.                                                        *)
(***************************************************************************)
C7_PayloadOutOfBoundsIsNull ==
    \A h \in Handles :
        (LengthDecoded(h) /\ offset[h] + 4 + length[h] > file_size_[h]) =>
            /\ pc[h] = "idle"
            /\ ret[h] = RetNull(RLF)
            /\ out[h] = <<>>
            /\ SlotReads(h) = Span(offset[h], 4)

\* The declared payload ends one byte past the mapping.
C7_Witness ==
    \E h \in Handles :
        /\ LengthDecoded(h) /\ ret[h] = RetNull(RLF)
        /\ offset[h] + 4 + length[h] = file_size_[h] + 1

(***************************************************************************)
(* C8.  When the length prefix is readable and is 0, readLatestFrame       *)
(* returns null; so every buffer it returns has at least one byte.         *)
(***************************************************************************)
C8_ZeroLengthIsNull ==
    \A h \in Handles :
        /\ (LengthDecoded(h) /\ length[h] = 0) =>
              /\ pc[h] = "idle"
              /\ ret[h] = RetNull(RLF)
        /\ (ret[h].op = RLF /\ ret[h].kind = "buffer") => Len(FrameBytes(h)) >= 1

C8_Witness ==
    \E h \in Handles :
        /\ LengthDecoded(h) /\ length[h] = 0 /\ ret[h] = RetNull(RLF)
        /\ Span(offset[h], 4) \subseteq reads[h]
        /\ offset[h] + 4 < file_size_[h]

(***************************************************************************)
(* C9.  Once close has been called, every later readLatestFrame and        *)
(* getMetadata fails with ClosedError whatever the header holds, the       *)
(* handle never becomes open again, and every further close completes      *)
(* without failure and changes nothing.                                    *)
(***************************************************************************)
C9_CloseCloses == \A h \in Handles : ret[h].op = "close" => IsClosed(h)

C9_ClosedStep ==
    \A h \in Handles :
        IsClosed(h) =>
            /\ IsClosed(h)'
            /\ pc'[h] = "idle"
            /\ RLF_Begin(h) => ret'[h] = Threw(RLF, "ClosedError")
            /\ GetMetadata(h) => ret'[h] = Threw("getMetadata", "ClosedError")
            /\ Close(h) =>
                  /\ ret'[h] = RetUndefined("close")
                  /\ UNCHANGED <<mem, phase, fd_, buf_, file_size_, sys>>

\* C9: after close the handle stays closed, reads fail with ClosedError and a
\* further close changes nothing.
C9_ClosedForGood == []C9_CloseCloses /\ [][C9_ClosedStep]_vars

\* getMetadata failed on a closed handle whose file has write_index == 0, after
\* the single unmap.
C9_Witness ==
    \E h \in Handles :
        /\ IsClosed(h) /\ phase[h] = "live"
        /\ ret[h] = Threw("getMetadata", "ClosedError")
        /\ U32At(mem, OffWriteIndex) = 0
        /\ sys[h].unmaps = 1 /\ sys[h].closes = 1

(***************************************************************************)
(* C10.  getWriteIndex never fails: on a closed handle it returns -1, on   *)
(* an open handle the header's current write_index as a number in          *)
(* [0, 2^32 - 1]; so -1 is returned exactly when the handle is closed.     *)
(***************************************************************************)
C10_Result ==
    \A h \in Handles :
        (ret[h].op = "getWriteIndex" /\ phase[h] = "live") =>
            /\ ret[h].kind = "number"
            /\ ret[h].num \in -1 .. U32Max
            /\ ret[h].num = -1 <=> buf_[h] = nullptr

C10_Step ==
    \A h \in Handles :
        GetWriteIndex(h) =>
            ret'[h].num = IF buf_[h] = nullptr THEN -1 ELSE U32At(mem, OffWriteIndex)

\* C10: getWriteIndex returns -1 exactly on a closed handle, else write_index.
C10_WriteIndexOrSentinel == []C10_Result /\ [][C10_Step]_vars

\* The largest write_index is reported as itself.
C10_Witness ==
    \E h \in Handles :
        /\ ret[h] = RetNumber("getWriteIndex", U32Max)
        /\ buf_[h] # nullptr

(***************************************************************************)
(* C11.  On an open handle getMetadata returns writeIndex, frameCount,     *)
(* slotSize, ringSize, width, height with exactly the unsigned values      *)
(* stored at byte offsets 0, 4, 8, 12, 16, 20, validates none of them, and *)
(* its writeIndex is what getWriteIndex returns on the same mapping.       *)
(***************************************************************************)
C11_Stored(off) ==
    mem[off] + ByteBase * (mem[off + 1] + ByteBase * (mem[off + 2] + ByteBase * mem[off + 3]))

C11_Step ==
    \A h \in Handles :
        /\ (GetMetadata(h) /\ buf_[h] # nullptr) =>
              /\ ret'[h].kind = "object"
              /\ ret'[h].obj = <<C11_Stored(0), C11_Stored(4), C11_Stored(8),
                                 C11_Stored(12), C11_Stored(16), C11_Stored(20)>>
        /\ (GetWriteIndex(h) /\ buf_[h] # nullptr) => ret'[h].num = C11_Stored(0)

\* C11: getMetadata returns the six header fields as stored, unvalidated.
C11_MetadataVerbatim == [][C11_Step]_vars

\* Metadata of a header with the largest write_index, ring_size == 0 and
\* slot_size < 4.
C11_Witness ==
    \E h \in Handles :
        /\ ret[h].op = "getMetadata" /\ ret[h].kind = "object"
        /\ ret[h].obj[1] = U32Max
        /\ ret[h].obj[2] = 0
        /\ ret[h].obj[3] = 2
        /\ ret[h].obj[4] = 0
        /\ ret[h].obj[5] # ret[h].obj[6]

(***************************************************************************)
(* C12.  The constructor yields an open handle exactly when the file can   *)
(* be opened, its size (as fstat reports it) is at least 64 bytes and the  *)
(* mapping succeeds; otherwise it fails with OpenError, SizeError or       *)
(* MapError, tested in that order, and the handle then holds neither a     *)
(* descriptor nor a mapping: a descriptor that was opened has been closed. *)
(* A file of exactly 64 bytes is accepted, one of 0..63 bytes rejected     *)
(* with SizeError.                                                         *)
(***************************************************************************)
C12_SizeOk(h) == sys[h].canStat /\ fileLen >= 64

C12_OpenOutcome ==
    \A h \in Handles :
        (phase[h] \in {"live", "failed"} /\ ret[h].op = "new" /\ ret[h].err # "TypeError") =>
            /\ phase[h] = "live" <=> (sys[h].canOpen /\ C12_SizeOk(h) /\ sys[h].canMap)
            /\ phase[h] = "live" =>
                  /\ ret[h].kind = "object"
                  /\ fd_[h] >= 0 /\ buf_[h] # nullptr /\ file_size_[h] = fileLen
            /\ phase[h] = "failed" =>
                  /\ ret[h].kind = "error"
                  /\ ret[h].err = (IF ~sys[h].canOpen THEN "OpenError"
                                   ELSE IF ~C12_SizeOk(h) THEN "SizeError"
                                   ELSE "MapError")
                  /\ fd_[h] = -1 /\ buf_[h] = nullptr
                  /\ sys[h].closes = sys[h].opens
                  /\ sys[h].opens = (IF sys[h].canOpen THEN 1 ELSE 0)
                  /\ sys[h].maps = 0 /\ sys[h].unmaps = 0

\* mmap failed on a file of exactly 64 bytes: the descriptor was closed again.
C12_Witness ==
    \E h \in Handles :
        /\ phase[h] = "failed" /\ ret[h] = Threw("new", "MapError")
        /\ fileLen = 64
        /\ sys[h].opens = 1 /\ sys[h].closes = 1 /\ fd_[h] = -1

(***************************************************************************)
(* C13.  Whatever was done with a handle, once it is destroyed its mapping *)
(* has been unmapped exactly once and its descriptor closed exactly once   *)
(* if they were acquired, and never otherwise: no leak without close, no   *)
(* second munmap or close after one or more close calls.                   *)
(***************************************************************************)
C13_ReleasedExactlyOnce ==
    \A h \in Handles :
        /\ sys[h].opens <= 1 /\ sys[h].maps <= 1
        /\ sys[h].closes <= sys[h].opens
        /\ sys[h].unmaps <= sys[h].maps
        /\ phase[h] = "destroyed" =>
              /\ sys[h].closes = sys[h].opens
              /\ sys[h].unmaps = sys[h].maps

\* Destroyed after close() had already released the mapping and descriptor.
C13_Witness ==
    \E h \in Handles :
        /\ phase[h] = "destroyed" /\ ret[h].op = "close"
        /\ sys[h].maps = 1 /\ sys[h].unmaps = 1
        /\ sys[h].opens = 1 /\ sys[h].closes = 1

(***************************************************************************)
(* C14.  readLatestFrame loads write_index once, at its start: no later    *)
(* step of the call changes the value it works with, and a copy that has   *)
(* begun always ends in a returned buffer of length bytes, also when the   *)
(* writer has published or stored into the slot meanwhile.  With a writer  *)
(* that keeps the producer contract the returned bytes can therefore come  *)
(* from two generations of one slot (C14_Witness).                         *)
(***************************************************************************)
C14_Step ==
    \A h \in Handles :
        /\ pc[h] # "idle" => write_idx'[h] = write_idx[h]
        /\ (pc[h] = "copy" /\ pc'[h] = "idle") =>
              /\ ret'[h] = RetBuffer(RLF)
              /\ Len(out'[h]) = length[h]

C14_NoRevalidation == [][C14_Step]_vars

\* A returned buffer holding payload bytes of two different frames.
C14_Witness ==
    \E h \in Handles :
        /\ pc[h] = "idle"
        /\ ret[h] = RetBuffer(RLF)
        /\ phase[h] = "live"
        /\ \E i, j \in DOMAIN out[h] :
              /\ out[h][i] # 0
              /\ out[h][j] # 0
              /\ out[h][i] # out[h][j]

(***************************************************************************)
(* C15.  Well-formed file, writer keeping the producer contract: a         *)
(* readLatestFrame that loaded write_index = k > 0 and returns while the   *)
(* writer's write_index is still below k + ring_size - 1 returns exactly   *)
(* the complete payload of the k-th frame, whatever the writer stored      *)
(* meanwhile.  (write_index never decreases, so its value at the return    *)
(* bounds its value during the call.)  For ring_size = 1 no state meets    *)
(* the condition, as write_index >= k always: the tear of C14_Witness      *)
(* happens there.                                                          *)
(***************************************************************************)
C15_InWindow(h) ==
    /\ pc[h] = "idle"
    /\ Decoded(h)
    /\ write_idx[h] > 0
    /\ U32At(mem, OffWriteIndex) < write_idx[h] + ring_size[h] - 1

C15_UntornInWindow ==
    \A h \in Handles :
        C15_InWindow(h) =>
            /\ ret[h] = RetBuffer(RLF)
            /\ write_idx[h] <= Len(prod.lens)
            /\ out[h] = Frame(write_idx[h])

\* The writer stored part of the next frame while the call was running.
C15_Witness ==
    \E h \in Handles :
        /\ C15_InWindow(h)
        /\ write_idx[h] >= 2
        /\ touched[h]
        /\ prod.pc = "slot"
        /\ Len(out[h]) = PayloadCap

(***************************************************************************)
(* C16.  Well-formed file, writer keeping the producer contract, at rest   *)
(* after completing its n-th frame (n >= 1): every readLatestFrame that    *)
(* ran from entry to return with the writer at rest returns a buffer       *)
(* holding exactly the n-th frame's payload.  The result is a function of  *)
(* the file alone, so the first call, the second and every later one       *)
(* return equal buffers: no call consumes the frame.                       *)
(***************************************************************************)
C16_AtRest(h) ==
    /\ pc[h] = "idle"
    /\ InOrAfterRLF(h)
    /\ ret[h].err # "ClosedError"
    /\ ~touched[h]
    /\ prod.pc = "idle"
    /\ Len(prod.lens) >= 1

C16_LatestFrameAtRest ==
    \A h \in Handles :
        C16_AtRest(h) =>
            /\ ret[h] = RetBuffer(RLF)
            /\ write_idx[h] = Len(prod.lens)
            /\ out[h] = Frame(Len(prod.lens))

\* A call that returned the last frame after the ring had wrapped around.
C16_Witness ==
    \E h \in Handles :
        /\ C16_AtRest(h)
        /\ ret[h] = RetBuffer(RLF)
        /\ Len(prod.lens) > ring_size[h]
        /\ out[h] = Frame(Len(prod.lens))

(***************************************************************************)
(* C17.  For every write_index > 0, ring_size > 0, slot_size and length    *)
(* that fit uint32_t, the offset readLatestFrame computes is the integer   *)
(* 64 + ((write_index - 1) mod ring_size) * slot_size, and offset + 4 and  *)
(* offset + 4 + length stay below the modulus of size_t, so both bounds    *)
(* tests decide as the exact integers do: BoundsError exactly when         *)
(* offset + 4 > mapped_length, null exactly when length = 0 or             *)
(* offset + 4 + length > mapped_length.  (size_t is twice as wide as       *)
(* uint32_t, as on the LP64 targets of the addon.)                         *)
(***************************************************************************)
C17_Case(h) ==
    /\ phase[h] = "live"
    /\ Decoded(h)
    /\ write_idx[h] > 0
    /\ ring_size[h] > 0

C17_ExactArithmetic ==
    \A h \in Handles :
        C17_Case(h) =>
            LET exact == ExactOffset(write_idx[h], ring_size[h], slot_size[h])
            IN /\ offset[h] = exact
               /\ exact + 4 + U32Max < SizeMod
               /\ (ret[h] = Threw(RLF, "BoundsError")) <=>
                      (pc[h] = "idle" /\ exact + 4 > file_size_[h])
               /\ (pc[h] = "idle" /\ LengthDecoded(h)) =>
                      ((ret[h] = RetNull(RLF)) <=>
                          (length[h] = 0 \/ exact + 4 + length[h] > file_size_[h]))

\* An offset beyond uint32_t whose low half would have passed the test.
C17_Witness ==
    \E h \in Handles :
        /\ C17_Case(h)
        /\ offset[h] >= U32Mod
        /\ (offset[h] % U32Mod) + 4 <= file_size_[h]
        /\ ret[h] = Threw(RLF, "BoundsError")

(***************************************************************************)
(* C18.  readLatestFrame does not bound the payload by the slot: when the  *)
(* length prefix exceeds slot_size - 4 (slot_size below 4 included) and    *)
(* offset + 4 + length <= mapped_length, the call returns a buffer of      *)
(* exactly length bytes copied from offset + 4 on, the bytes beyond the    *)
(* end of the slot included; it neither rejects nor truncates the frame.   *)
(***************************************************************************)
C18_Case(h) ==
    /\ phase[h] = "live"
    /\ pc[h] = "idle"
    /\ LengthDecoded(h)
    /\ length[h] > 0
    /\ length[h] + 4 > slot_size[h]
    /\ offset[h] + 4 + length[h] <= file_size_[h]

C18_PayloadNotBoundedBySlot ==
    \A h \in Handles :
        C18_Case(h) =>
            /\ ret[h] = RetBuffer(RLF)
            /\ Len(out[h]) = length[h]
            /\ Span(offset[h] + 4, length[h]) \subseteq reads[h]
            /\ \E i \in reads[h] : i >= offset[h] + slot_size[h]
            /\ ~touched[h] =>
                  out[h] = [i \in 1 .. length[h] |-> mem[offset[h] + 4 + (i - 1)]]

\* A frame longer than its slot, in a ring whose slot_size is the laid-out
\* size or is below the four bytes of the prefix; the writer kept still.
C18_Witness ==
    \E h \in Handles :
        /\ C18_Case(h)
        /\ ring_size[h] > 0
        /\ slot_size[h] \in {2, SlotBytes}
        /\ length[h] > PayloadCap
        /\ ~touched[h]

(***************************************************************************)
(* C19.  Every step of readLatestFrame, getWriteIndex and getMetadata      *)
(* leaves the shared file and the handle's descriptor, mapping base,       *)
(* mapped length and system calls unchanged, whatever the call returns     *)
(* (a buffer, null, a number, an object, BoundsError, ClosedError); the    *)
(* handle stays open or closed as it was.  A call that the remainder by    *)
(* zero of C2 kills returns nothing and is the one step that ends the      *)
(* handle.  The mapped length changes in the constructor alone.            *)
(***************************************************************************)
C19_ReadStep(h) ==
    \/ RLF_Begin(h)
    \/ RLF_LoadRingSize(h)
    \/ RLF_LoadSlotSize(h)
    \/ RLF_LoadLength(h)
    \/ RLF_CopyByte(h)
    \/ GetWriteIndex(h)
    \/ GetMetadata(h)

C19_Step ==
    \A h \in Handles :
        /\ C19_ReadStep(h) =>
              /\ UNCHANGED <<mem, fileLen>>
              /\ fd_' = fd_ /\ buf_' = buf_ /\ file_size_' = file_size_ /\ sys' = sys
              /\ phase'[h] = phase[h] \/ phase'[h] = "crashed"
              /\ IsClosed(h)' <=> IsClosed(h)
        /\ file_size_'[h] # file_size_[h] => phase[h] = "new"

C19_ReadsChangeNothing == [][C19_Step]_vars

\* A call ended in BoundsError and the handle is as open as before.
C19_Witness ==
    \E h \in Handles :
        /\ phase[h] = "live"
        /\ ret[h] = Threw(RLF, "BoundsError")
        /\ buf_[h] = MapBase
        /\ fd_[h] >= 0
        /\ file_size_[h] = fileLen
        /\ sys[h].unmaps = 0 /\ sys[h].closes = 0

(***************************************************************************)
(* C20.  One writer and several handles on one file.  (a) Whether a step   *)
(* can be taken depends on its own process alone: the constructor on a     *)
(* handle not yet constructed, readLatestFrame and close on an open or     *)
(* closed handle between two calls, every later step of a running          *)
(* readLatestFrame, and every step of the writer are enabled whatever the  *)
(* other handles are doing.  (b) A step of one handle (opening, reading,   *)
(* closing) changes neither the file nor the writer nor any member, local  *)
(* or result of another handle.                                            *)
(***************************************************************************)
HandleState(h) ==
    <<phase[h], fd_[h], buf_[h], file_size_[h], sys[h], pc[h], write_idx[h],
      ring_size[h], slot_size[h], slot[h], offset[h], length[h], out[h], ret[h],
      reads[h], touched[h]>>

ConsumerStep(g) ==
    \/ Construct(g)
    \/ RLF_Begin(g)
    \/ RLF_LoadRingSize(g)
    \/ RLF_LoadSlotSize(g)
    \/ RLF_LoadLength(g)
    \/ RLF_CopyByte(g)
    \/ Close(g)

C20_NeverDisabled ==
    /\ \A h \in Handles :
          /\ phase[h] = "new" => ENABLED Construct(h)
          /\ (phase[h] = "live" /\ pc[h] = "idle") =>
                (ENABLED RLF_Begin(h)) /\ (ENABLED Close(h))
          /\ pc[h] = "ld_ring" => ENABLED RLF_LoadRingSize(h)
          /\ pc[h] = "ld_slot" => ENABLED RLF_LoadSlotSize(h)
          /\ pc[h] = "ld_len" => ENABLED RLF_LoadLength(h)
          /\ pc[h] = "copy" => ENABLED RLF_CopyByte(h)
    /\ (prod.pc = "idle" /\ Len(prod.lens) < MaxFrames) => ENABLED Prod_BeginFrame
    /\ prod.pc = "slot" => ENABLED Prod_Store
    /\ prod.pc = "publish" => ENABLED Prod_Publish

C20_Step ==
    \A g \in Handles :
        ConsumerStep(g) =>
            /\ UNCHANGED <<mem, fileLen, prod>>
            /\ \A h \in Handles \ {g} : HandleState(h)' = HandleState(h)

C20_Independent == []C20_NeverDisabled /\ [][C20_Step]_vars

\* One handle has been closed while another is in the middle of a copy and
\* the writer in the middle of a slot.
C20_Witness ==
    \E g, h \in Handles :
        /\ g # h
        /\ IsClosed(g) /\ ret[g] = RetUndefined("close")
        /\ phase[h] = "live" /\ pc[h] = "copy" /\ buf_[h] = MapBase
        /\ prod.pc = "slot"
        /\ touched[h]

====
